---- MODULE Spec2Model ----
(***************************************************************************)
(* A model of ironstorm_lookup's LookupTable (src/src/lib.rs).             *)
(*                                                                         *)
(* from_iter consumes an iterator of Lookup values one at a time, grows    *)
(* one corpus String per bucket and a BTreeMap from (bucket, byte offset)  *)
(* to the value, and then builds one SuffixTable per bucket.  find returns *)
(* a lazy iterator (BTreeMap::iter -> flat_map -> map) whose every next()  *)
(* is one Pull here.  Strings are Rust Strings: sequences of UTF-8 bytes;  *)
(* String::len and SuffixTable::positions both count bytes.                *)
(***************************************************************************)
EXTENDS Integers, Sequences, FiniteSets, TLC

(***************************************************************************)
(* Bounds and input domains.                                               *)
(***************************************************************************)
\* The longest input iterator from_iter is given.
MaxRecords == 3

\* The longest input iterator when two find iterators are interleaved.
MaxSharedRecords == 2

\* The code point U+FFFF, the one character of SEPARATOR.
SepChar == "U+FFFF"

\* The searchable texts the Lookup values return, over the one-byte "a",
\* the two-byte "e'" (U+00E9) and the three-byte separator character
\* itself, which nothing validates.
Texts == { <<>>, <<"a">>, <<"a", "a", "a">>, <<"e'", "a">>, <<SepChar, "a">> }

\* The buckets the Lookup values return (usize, sparse).
Buckets == {0, 7, 1000000}

\* The buckets of the values when two find iterators are interleaved.
SharedBuckets == {0, 7}

\* The search texts handed to find ("b" occurs in no text).
Patterns == { <<>>, <<"a">>, <<"a", "a">>, <<"b">>, <<SepChar>>, <<SepChar, "a">> }

\* The find iterators alive at the same time.
Iters == {1, 2}

(***************************************************************************)
(* Strings.                                                                *)
(***************************************************************************)
\* The UTF-8 encoding of one character.
Utf8Char(c) ==
    CASE c = "a" -> <<97>>
      [] c = "b" -> <<98>>
      [] c = "e'" -> <<195, 169>>
      [] c = SepChar -> <<239, 191, 191>>

\* A Rust String: the concatenated UTF-8 encodings of its characters.
RECURSIVE Utf8(_)
Utf8(cs) == IF cs = <<>> THEN <<>> ELSE Utf8Char(Head(cs)) \o Utf8(Tail(cs))

\* Mutant of SEPARATOR: nothing is pushed between two records.
NoSeparator == <<>>

\* const SEPARATOR: &'static str = "\u{FFFF}"
SEPARATOR == Utf8(<<SepChar>>)

\* String::push_str
push_str(text, s) == text \o s

\* &text[from..]: the suffix of text that starts at byte offset from (0-based).
SuffixAt(text, from) == SubSeq(text, from + 1, Len(text))

\* str::starts_with
starts_with(s, q) == Len(q) <= Len(s) /\ SubSeq(s, 1, Len(q)) = q

\* Ord for str: bytewise lexicographic, a proper prefix first.
RECURSIVE str_lt(_, _)
str_lt(s, t) ==
    IF t = <<>> THEN FALSE
    ELSE IF s = <<>> THEN TRUE
    ELSE IF Head(s) # Head(t) THEN Head(s) < Head(t)
    ELSE str_lt(Tail(s), Tail(t))

(***************************************************************************)
(* The Lookup trait, for values [id, text, bucket].  id is the identity of *)
(* the value (the place it is moved to); the trait methods are pure.       *)
(***************************************************************************)
searchable_text(value) == Utf8(value.text)

bucket(value) == value.bucket

(***************************************************************************)
(* BTreeMap.                                                               *)
(***************************************************************************)
EmptyMap == [k \in {} |-> 0]

\* BTreeMap::insert: a value under an existing key replaces the old one.
insert(map, key, value) ==
    [k \in DOMAIN map \cup {key} |-> IF k = key THEN value ELSE map[k]]

\* Ord for (Bucket, TextPosition): lexicographic.
KeyLeq(k1, k2) == k1[1] < k2[1] \/ (k1[1] = k2[1] /\ k1[2] <= k2[2])

\* Mutant of KeysAscending: the buckets are visited from the highest down.
RECURSIVE KeysDescending(_)
KeysDescending(S) ==
    IF S = {} THEN <<>>
    ELSE LET m == CHOOSE x \in S : \A y \in S : x >= y
         IN  <<m>> \o KeysDescending(S \ {m})

\* The keys a BTreeMap<Bucket, _>::iter visits, in its ascending order.
RECURSIVE KeysAscending(_)
KeysAscending(S) ==
    IF S = {} THEN <<>>
    ELSE LET m == CHOOSE x \in S : \A y \in S : x <= y
         IN  <<m>> \o KeysAscending(S \ {m})

(***************************************************************************)
(* The suffix crate's SuffixTable, by its contract.                        *)
(***************************************************************************)
\* SuffixTable::new: the text and the offsets of its suffixes in the
\* lexicographic order of the suffixes.
SuffixTable_new(text) ==
    [text  |-> text,
     table |-> SortSeq([i \in 1..Len(text) |-> i - 1],
                       LAMBDA i, j : str_lt(SuffixAt(text, i), SuffixAt(text, j)))]

\* SuffixTable::positions: nothing for an empty text or an empty query,
\* else the slice of the table whose suffixes start with the query.
positions(st, query) ==
    IF Len(st.text) = 0 \/ Len(query) = 0 THEN <<>>
    ELSE SelectSeq(st.table, LAMBDA o : starts_with(SuffixAt(st.text, o), query))

(***************************************************************************)
(* State.                                                                  *)
(***************************************************************************)
VARIABLES
    pc,                \* "ingest": inside from_iter's loop; "built": returned
    records,           \* the values the input iterator has yielded, in order
    text_map,          \* from_iter's text_map: bucket -> corpus String
    position_map,      \* (bucket, byte offset) -> value
    suffix_table_map,  \* bucket -> SuffixTable
    iters              \* the iterators find has returned

vars == <<pc, records, text_map, position_map, suffix_table_map, iters>>

\* No iterator in this slot.
NoIter ==
    [state |-> "none", search_text |-> <<>>, outer |-> <<>>, front |-> <<>>,
     out |-> <<>>, queried |-> <<>>, decodes |-> 0]

Init ==
    /\ pc = "ingest"
    /\ records = <<>>
    /\ text_map = EmptyMap
    /\ position_map = EmptyMap
    /\ suffix_table_map = EmptyMap
    /\ iters = [i \in Iters |-> NoIter]

(***************************************************************************)
(* from_iter.                                                              *)
(***************************************************************************)
\* Mutant of entry_or_insert: a new String every time, the bucket's corpus
\* is not looked up.
entry_fresh(map, b) == <<>>

\* text_map.entry(b).or_insert_with(String::new)
entry_or_insert(map, b) == IF b \in DOMAIN map THEN map[b] ELSE <<>>

\* Mutant of text_pos: the length is read after the text has been pushed.
text_pos_after_push(text, value) == Len(text) + Len(searchable_text(value))

\* The position recorded for a value: the corpus length before the push.
text_pos(text, value) == Len(text)

\* One turn of `for value in iterator`.
Ingest(t, b) ==
    /\ pc = "ingest"
    /\ Len(records) < MaxRecords
    /\ LET value == [id |-> Len(records) + 1, text |-> t, bucket |-> b]
           text  == entry_or_insert(text_map, bucket(value))
           pos   == text_pos(text, value)
           text1 == push_str(push_str(text, searchable_text(value)), SEPARATOR)
       IN  /\ text_map' = insert(text_map, bucket(value), text1)
           /\ position_map' = insert(position_map, <<bucket(value), pos>>, value)
           /\ records' = Append(records, value)
    /\ UNCHANGED <<pc, suffix_table_map, iters>>

\* The input iterator ends: one SuffixTable per corpus, and the table is returned.
Build ==
    /\ pc = "ingest"
    /\ suffix_table_map' = [b \in DOMAIN text_map |-> SuffixTable_new(text_map[b])]
    /\ text_map' = EmptyMap
    /\ pc' = "built"
    /\ UNCHANGED <<records, position_map, iters>>

(***************************************************************************)
(* The accessors.                                                          *)
(***************************************************************************)
len == Cardinality(DOMAIN position_map)

\* Mutant of bucket_count: the size of the wrong map.
bucket_count_of_positions == Cardinality(DOMAIN position_map)

bucket_count == Cardinality(DOMAIN suffix_table_map)

(***************************************************************************)
(* find.                                                                   *)
(***************************************************************************)
\* Mutant of get_value_for_position: an exact get instead of the floor lookup.
get_value_exact(b, text_position) ==
    IF <<b, text_position>> \in DOMAIN position_map
    THEN [panic |-> FALSE, key |-> <<b, text_position>>,
          value |-> position_map[<<b, text_position>>]]
    ELSE [panic |-> TRUE]

\* position_map.range((Unbounded, Included(&(bucket, text_position)))).rev().next()
\* The entry of the greatest key at or below the query, or a panic.
get_value_for_position(b, text_position) ==
    LET below == {k \in DOMAIN position_map : KeyLeq(k, <<b, text_position>>)}
    IN  IF below = {} THEN [panic |-> TRUE]
        ELSE LET key == CHOOSE k \in below : \A k2 \in below : KeyLeq(k2, k)
             IN  [panic |-> FALSE, key |-> key, value |-> position_map[key]]

\* The flat_map closure for one bucket: the engine's positions, each paired
\* with the bucket.
bucket_matches(b, search_text) ==
    LET ps == positions(suffix_table_map[b], search_text)
    IN  [n \in 1..Len(ps) |-> <<b, ps[n]>>]

\* FlatMap::next up to the point where it has an item or has run dry: while
\* the front iterator is empty, take the next bucket of the outer iterator
\* and call the closure on it.
RECURSIVE flat_map_advance(_)
flat_map_advance(it) ==
    IF it.front # <<>> \/ it.outer = <<>> THEN it
    ELSE flat_map_advance(
            [it EXCEPT !.front = bucket_matches(Head(it.outer), it.search_text),
                       !.outer = Tail(it.outer),
                       !.queried = Append(it.queried, Head(it.outer))])

\* The flat_map run over every bucket at once.
RECURSIVE all_matches(_, _)
all_matches(bs, search_text) ==
    IF bs = <<>> THEN <<>>
    ELSE bucket_matches(Head(bs), search_text) \o all_matches(Tail(bs), search_text)

\* Mutant of new_iter: find collects the matches of every bucket before it
\* returns.
eager_iter(search_text) ==
    [state |-> "active", search_text |-> search_text,
     outer |-> <<>>,
     front |-> all_matches(KeysAscending(DOMAIN suffix_table_map), search_text),
     out |-> <<>>, queried |-> KeysAscending(DOMAIN suffix_table_map), decodes |-> 0]

\* The iterator find builds: nothing is evaluated until the first next().
new_iter(search_text) ==
    [state |-> "active", search_text |-> search_text,
     outer |-> KeysAscending(DOMAIN suffix_table_map), front |-> <<>>,
     out |-> <<>>, queried |-> <<>>, decodes |-> 0]

\* find(search_text)
Find(i, p) ==
    /\ pc = "built"
    /\ iters[i].state = "none"
    /\ iters' = [iters EXCEPT ![i] = new_iter(Utf8(p))]
    /\ UNCHANGED <<pc, records, text_map, position_map, suffix_table_map>>

\* One next() on the iterator: the next (bucket, position) of the flat_map,
\* mapped through get_value_for_position; None when the flat_map is dry.
next_item(it0) ==
    LET it == flat_map_advance(it0)
    IN  IF it.front = <<>> THEN [it EXCEPT !.state = "done"]
        ELSE LET item == Head(it.front)
                 got  == get_value_for_position(item[1], item[2])
                 it1  == [it EXCEPT !.front = Tail(it.front),
                                    !.decodes = it.decodes + 1]
             IN  IF got.panic THEN [it1 EXCEPT !.state = "panicked"]
                 ELSE [it1 EXCEPT !.out = Append(it.out,
                          [bucket |-> item[1], position |-> item[2],
                           key |-> got.key, value |-> got.value])]

\* Mutant of Pull: the yielded value is taken out of the position map.
PullTaking(i) ==
    /\ iters[i].state = "active"
    /\ iters' = [iters EXCEPT ![i] = next_item(iters[i])]
    /\ position_map' =
          [k \in DOMAIN position_map
                \ {iters'[i].out[n].key : n \in 1..Len(iters'[i].out)}
             |-> position_map[k]]
    /\ UNCHANGED <<pc, records, text_map, suffix_table_map>>

Pull(i) ==
    /\ iters[i].state = "active"
    /\ iters' = [iters EXCEPT ![i] = next_item(iters[i])]
    /\ UNCHANGED <<pc, records, text_map, position_map, suffix_table_map>>

\* The iterator is dropped; the slot can hold the next find's iterator.
Drop(i) ==
    /\ iters[i].state # "none"
    /\ iters' = [iters EXCEPT ![i] = NoIter]
    /\ UNCHANGED <<pc, records, text_map, position_map, suffix_table_map>>

(***************************************************************************)
(* Specifications: one consumer, and two consumers with interleaved        *)
(* iterators.                                                              *)
(***************************************************************************)
Next ==
    \/ \E t \in Texts, b \in Buckets : Ingest(t, b)
    \/ Build
    \/ \E p \in Patterns : Find(1, p)
    \/ Pull(1)
    \/ Drop(1)

Spec == Init /\ [][Next]_vars

NextShared ==
    \/ \E t \in Texts, b \in SharedBuckets :
          Len(records) < MaxSharedRecords /\ Ingest(t, b)
    \/ Build
    \/ \E i \in Iters, p \in Patterns : Find(i, p)
    \/ \E i \in Iters : Pull(i)
    \/ \E i \in Iters : Drop(i)

SpecShared == Init /\ [][NextShared]_vars

(***************************************************************************)
(* Vocabulary of the properties.                                           *)
(***************************************************************************)
\* The number of (possibly overlapping) occurrences of p as a substring of s.
Occurrences(p, s) ==
    Cardinality({o \in 0..(Len(s) - Len(p)) : SubSeq(s, o + 1, o + Len(p)) = p})

\* How many times the value with identity id has been yielded.
TimesYielded(it, id) ==
    Cardinality({n \in 1..Len(it.out) : it.out[n].value.id = id})

\* The string holds the separator.
HasSeparator(s) == Occurrences(<<239, 191, 191>>, s) > 0

\* The length of the bucket's corpus just before records[k] was appended.
RECURSIVE CorpusLenBefore(_, _)
CorpusLenBefore(k, j) ==
    IF j = 0 THEN 0
    ELSE CorpusLenBefore(k, j - 1)
         + (IF j < k /\ records[j].bucket = records[k].bucket
            THEN Len(Utf8(records[j].text)) + 3 ELSE 0)

StartOf(k) == CorpusLenBefore(k, Len(records))

\* The iterator run to its end with nothing else happening.
RECURSIVE RunAlone(_)
RunAlone(it) == IF it.state # "active" THEN it ELSE RunAlone(next_item(it))

IsPrefix(s, t) == Len(s) <= Len(t) /\ SubSeq(t, 1, Len(s)) = s

(***************************************************************************)
(* The claims.                                                             *)
(***************************************************************************)
\* C1: along the sequence find yields, the bucket of the yielded record
\* never decreases: a record of a lower bucket is never yielded after a
\* record of a higher bucket, whatever the pattern and the ingestion order.
C1_BucketOrdered ==
    \A i \in Iters :
        \A m, n \in 1..Len(iters[i].out) :
            m < n => bucket(iters[i].out[m].value) <= bucket(iters[i].out[n].value)

\* C1 witness: a finished find has yielded records of two buckets, the one
\* of the lower bucket first although it was ingested later.
C1_Witness ==
    \E i \in Iters :
        /\ iters[i].state = "done"
        /\ \E m, n \in 1..Len(iters[i].out) :
              /\ m < n
              /\ bucket(iters[i].out[m].value) < bucket(iters[i].out[n].value)
              /\ iters[i].out[m].value.id > iters[i].out[n].value.id

\* C2 (as claimed): once find(P) has ended for a non-empty P, every ingested
\* record has been yielded exactly as many times as P occurs in its
\* searchable text.
C2_Multiplicity ==
    \A i \in Iters :
        (iters[i].state = "done" /\ iters[i].search_text # <<>>) =>
            \A k \in 1..Len(records) :
                TimesYielded(iters[i], k)
                    = Occurrences(iters[i].search_text, searchable_text(records[k]))

\* C2 for the patterns that do not hold the separator: what the code does
\* guarantee.
MultiplicityWithoutSeparator ==
    \A i \in Iters :
        (/\ iters[i].state = "done"
         /\ iters[i].search_text # <<>>
         /\ ~HasSeparator(iters[i].search_text)) =>
            \A k \in 1..Len(records) :
                TimesYielded(iters[i], k)
                    = Occurrences(iters[i].search_text, searchable_text(records[k]))

\* C3 (as claimed): when P occurs in no ingested record's searchable text,
\* find(P) yields nothing: no pull decodes or yields a record.
C3_NoMatchIsEmpty ==
    \A i \in Iters :
        (/\ iters[i].state # "none"
         /\ \A k \in 1..Len(records) :
               Occurrences(iters[i].search_text, searchable_text(records[k])) = 0) =>
            /\ iters[i].out = <<>>
            /\ iters[i].decodes = 0
            /\ iters[i].state \in {"active", "done"}

\* C3 for the patterns that do not hold the separator: what the code does
\* guarantee.
NoMatchWithoutSeparator ==
    \A i \in Iters :
        (/\ iters[i].state # "none"
         /\ ~HasSeparator(iters[i].search_text)
         /\ \A k \in 1..Len(records) :
               Occurrences(iters[i].search_text, searchable_text(records[k])) = 0) =>
            /\ iters[i].out = <<>>
            /\ iters[i].decodes = 0
            /\ iters[i].state \in {"active", "done"}

\* C4: once from_iter has returned, len() is the number of records the input
\* yielded, each counted once whatever its text and bucket.
C4_LenCountsRecords == pc = "built" => len = Len(records)

\* C4 witness: a table built from MaxRecords records, two of them with the
\* same empty text in the same bucket.
C4_Witness ==
    /\ pc = "built"
    /\ Len(records) = MaxRecords
    /\ \E j, k \in 1..Len(records) :
          /\ j < k
          /\ records[j].text = <<>>
          /\ records[k].text = <<>>
          /\ records[j].bucket = records[k].bucket

\* C5: once from_iter has returned, bucket_count() is the number of distinct
\* buckets of the ingested records; 0 for an empty input.
C5_BucketCountDistinct ==
    pc = "built" =>
        bucket_count = Cardinality({bucket(records[k]) : k \in 1..Len(records)})

\* C5 witness: a table of three records, two sharing bucket 0 and one in
\* the far bucket, has two buckets.
C5_Witness ==
    /\ pc = "built"
    /\ Len(records) = 3
    /\ {bucket(records[k]) : k \in 1..Len(records)} = {0, 1000000}
    /\ bucket_count = 2

\* C6: no pull on a find iterator panics, and every (bucket, offset) the
\* engine has returned has a position key at or below it.
C6_FindNeverPanics ==
    \A i \in Iters :
        /\ iters[i].state # "panicked"
        /\ \A n \in 1..Len(iters[i].front) :
              \E k \in DOMAIN position_map : KeyLeq(k, iters[i].front[n])

\* C6 witness: a pull has decoded an offset that is no record's start, in a
\* bucket that is not the lowest, for a pattern that holds the separator.
C6_Witness ==
    \E i \in Iters :
        /\ HasSeparator(iters[i].search_text)
        /\ \E n \in 1..Len(iters[i].out) :
              /\ <<iters[i].out[n].bucket, iters[i].out[n].position>>
                    \notin DOMAIN position_map
              /\ \E b \in DOMAIN suffix_table_map : b < iters[i].out[n].bucket

\* C7: find is lazy.  A bucket's engine is queried only when every
\* occurrence of every lower bucket has been yielded; after K results the
\* iterator has made K decode lookups and has queried no bucket above the
\* bucket of the K-th result (none at all before the first pull).
C7_Lazy ==
    \A i \in Iters :
        LET it == iters[i]
            K  == Len(it.out)
        IN  /\ it.decodes = K
            /\ \A n \in 1..Len(it.queried) :
                  \A b \in DOMAIN suffix_table_map :
                      b < it.queried[n] =>
                          Cardinality({m \in 1..K : it.out[m].bucket = b})
                              = Len(positions(suffix_table_map[b], it.search_text))
            /\ it.state = "active" =>
                  \A n \in 1..Len(it.queried) :
                      K > 0 /\ it.queried[n] <= bucket(it.out[K].value)

\* C7 witness: a consumer has stopped after results of the lowest bucket,
\* while a higher bucket that holds occurrences has not been queried.
C7_Witness ==
    \E i \in Iters :
        /\ iters[i].state = "active"
        /\ iters[i].out # <<>>
        /\ iters[i].front = <<>>
        /\ \E b \in DOMAIN suffix_table_map :
              /\ b > bucket(iters[i].out[Len(iters[i].out)].value)
              /\ positions(suffix_table_map[b], iters[i].search_text) # <<>>

\* C8: with no separator in any text nor in the non-empty pattern, every
\* offset o the engine returns for bucket b decodes to the record of bucket
\* b whose span holds o: start <= o < start + length of its text.
C8_DecodeReturnsOwner ==
    (\A k \in 1..Len(records) : ~HasSeparator(searchable_text(records[k]))) =>
        \A i \in Iters :
            (iters[i].search_text # <<>> /\ ~HasSeparator(iters[i].search_text)) =>
                /\ iters[i].state # "panicked"
                /\ \A n \in 1..Len(iters[i].out) :
                      LET e == iters[i].out[n]
                      IN  /\ bucket(e.value) = e.bucket
                          /\ e.key = <<e.bucket, StartOf(e.value.id)>>
                          /\ e.value = records[e.value.id]
                          /\ e.key[2] <= e.position
                          /\ e.position < e.key[2] + Len(searchable_text(e.value))
                /\ \A n \in 1..Len(iters[i].front) :
                      LET got == get_value_for_position(iters[i].front[n][1],
                                                        iters[i].front[n][2])
                      IN  /\ ~got.panic
                          /\ bucket(got.value) = iters[i].front[n][1]
                          /\ got.key[2] <= iters[i].front[n][2]
                          /\ iters[i].front[n][2]
                                < got.key[2] + Len(searchable_text(got.value))

\* C8 witness: a decoded offset lies inside (not at the start of) a record
\* that is not the first of its bucket, in a table without separators in
\* its texts and for a pattern without the separator.
C8_Witness ==
    /\ \A k \in 1..Len(records) : ~HasSeparator(searchable_text(records[k]))
    /\ \E i \in Iters :
          /\ iters[i].search_text # <<>>
          /\ ~HasSeparator(iters[i].search_text)
          /\ \E n \in 1..Len(iters[i].out) :
                /\ iters[i].out[n].key[2] > 0
                /\ iters[i].out[n].position > iters[i].out[n].key[2]

\* C9: at every step of construction the position keys are unique: each
\* ingested record is stored under (its bucket, the length of the bucket's
\* corpus before it), offsets strictly increase within a bucket in ingestion
\* order, and the first record of each bucket has offset 0.
C9_KeysUnique ==
    /\ Cardinality(DOMAIN position_map) = Len(records)
    /\ \A k \in 1..Len(records) :
          /\ <<bucket(records[k]), StartOf(k)>> \in DOMAIN position_map
          /\ position_map[<<bucket(records[k]), StartOf(k)>>] = records[k]
    /\ \A k1, k2 \in DOMAIN position_map :
          (k1[1] = k2[1] /\ position_map[k1].id < position_map[k2].id) => k1[2] < k2[2]
    /\ \A k \in 1..Len(records) :
          (\A j \in 1..(k - 1) : bucket(records[j]) # bucket(records[k])) =>
              (<<bucket(records[k]), 0>> \in DOMAIN position_map
                  /\ position_map[<<bucket(records[k]), 0>>] = records[k])

\* C9 witness: during construction, three records of one bucket, the first
\* two with an empty text, are stored under three increasing offsets.
C9_Witness ==
    /\ pc = "ingest"
    /\ Len(records) = 3
    /\ \A k \in 1..3 : bucket(records[k]) = 7
    /\ records[1].text = <<>>
    /\ records[2].text = <<>>
    /\ {k[2] : k \in DOMAIN position_map} = {0, 3, 6}

\* C10: queries never change the table: once built, the position index and
\* the engines, and so len() and bucket_count(), stay as they are through
\* every find, pull and drop; and each of several interleaved iterators
\* yields exactly what it yields when run alone.
C10_QueriesLeaveTable ==
    /\ [][pc = "built" =>
            /\ position_map' = position_map
            /\ suffix_table_map' = suffix_table_map
            /\ len' = len
            /\ bucket_count' = bucket_count]_vars
    /\ [](\A i \in Iters :
            iters[i].state # "none" =>
                LET alone == RunAlone(new_iter(iters[i].search_text))
                IN  /\ IsPrefix(iters[i].out, alone.out)
                    /\ iters[i].state = "done" =>
                          (alone.state = "done" /\ iters[i].out = alone.out))

\* C10 witness: two iterators for different patterns are both in the middle
\* of their sequences.
C10_Witness ==
    /\ iters[1].state = "active"
    /\ iters[2].state = "active"
    /\ iters[1].search_text # iters[2].search_text
    /\ iters[1].out # <<>>
    /\ iters[2].out # <<>>
    /\ iters[1].front # <<>>
    /\ iters[2].front # <<>>
====
